---- MODULE Spec2Model ----
(***************************************************************************)
(* Model of backend/.py: the Flask endpoint POST /convert, which saves an  *)
(* uploaded file under uploads/<client filename>, converts a .png upload   *)
(* to JPEG with Pillow, and sends back the file at the computed .jpg path. *)
(*                                                                         *)
(* Strings are sequences of one-character strings, so that os.path.join,   *)
(* os.path.splitext and str.lower are computed as Python computes them.    *)
(* The filesystem is a function from resolved paths (sequences of path     *)
(* components, relative to the working directory) to file contents.  The   *)
(* server is started in the directory of the script, so that the paths     *)
(* file.save, Pillow and send_file open are relative to the same place.    *)
(***************************************************************************)
EXTENDS Integers, Sequences, FiniteSets, TLC

(***************************************************************************)
(* Bounds of the model.                                                    *)
(***************************************************************************)
\* Requests handled one after the other in a behaviour of Spec.
MaxRequests == 2
\* Requests received, over both worker threads, in a behaviour of SpecConc.
MaxConcRequests == 2

(***************************************************************************)
(* Strings.                                                                *)
(***************************************************************************)
SEP == "/"
EXTSEP == "."

\* line 7: UPLOAD_FOLDER = "uploads"
UPLOAD_FOLDER == <<"u", "p", "l", "o", "a", "d", "s">>

\* the literal ".png" of line 29 and the literal ".jpg" of line 27
DOT_PNG == <<".", "p", "n", "g">>
DOT_JPG == <<".", "j", "p", "g">>

\* str.lower on ASCII letters
LowerOf ==
    [A |-> "a", B |-> "b", C |-> "c", D |-> "d", E |-> "e", F |-> "f",
     G |-> "g", H |-> "h", I |-> "i", J |-> "j", K |-> "k", L |-> "l",
     M |-> "m", N |-> "n", O |-> "o", P |-> "p", Q |-> "q", R |-> "r",
     S |-> "s", T |-> "t", U |-> "u", V |-> "v", W |-> "w", X |-> "x",
     Y |-> "y", Z |-> "z"]

lower(s) == [i \in 1..Len(s) |-> IF s[i] \in DOMAIN LowerOf THEN LowerOf[s[i]] ELSE s[i]]

\* str.rfind, 1-based: the last index of c in p, 0 when c does not occur
rfind(p, c) ==
    LET hits == {i \in 1..Len(p) : p[i] = c}
    IN  IF hits = {} THEN 0 ELSE CHOOSE i \in hits : \A j \in hits : j <= i

\* os.path.splitext (posixpath): <<root, ext>>; the extension starts at the
\* last dot of the last component, unless that component has only leading dots
\* before it.
splitext(p) ==
    LET sepIndex == rfind(p, SEP)
        dotIndex == rfind(p, EXTSEP)
    IN  IF /\ dotIndex > sepIndex
           /\ \E k \in (sepIndex + 1)..(dotIndex - 1) : p[k] # EXTSEP
        THEN <<SubSeq(p, 1, dotIndex - 1), SubSeq(p, dotIndex, Len(p))>>
        ELSE <<p, <<>> >>

\* join as a handler that keeps only the last component of the client's name
\* would compute it
join_LastComponent(a, b) ==
    a \o <<SEP>> \o SubSeq(b, rfind(b, SEP) + 1, Len(b))

\* os.path.join (posixpath) of two parts
join(a, b) ==
    IF Len(b) > 0 /\ b[1] = SEP THEN b
    ELSE IF Len(a) = 0 \/ a[Len(a)] = SEP THEN a \o b
    ELSE a \o <<SEP>> \o b

(***************************************************************************)
(* Path resolution, as the operating system does it when a path is opened: *)
(* the path is cut at the separators, "" and "." are skipped and ".."      *)
(* leaves the directory entered last.  A resolved path is the sequence of  *)
(* components from the working directory (ROOT first for an absolute       *)
(* path).                                                                  *)
(***************************************************************************)
ROOT == <<SEP>>
DOTDOT == <<".", ".">>

RECURSIVE Components(_, _, _)
Components(p, i, cur) ==
    IF i > Len(p) THEN <<cur>>
    ELSE IF p[i] = SEP THEN <<cur>> \o Components(p, i + 1, <<>>)
    ELSE Components(p, i + 1, Append(cur, p[i]))

RECURSIVE Walk(_, _)
Walk(comps, at) ==
    IF comps = <<>> THEN at
    ELSE LET c == Head(comps)
             rest == Tail(comps)
         IN  IF c = <<>> \/ c = <<".">> THEN Walk(rest, at)
             ELSE IF c = DOTDOT
                  THEN IF Len(at) > 0 /\ at[Len(at)] # DOTDOT /\ at[Len(at)] # ROOT
                       THEN Walk(rest, SubSeq(at, 1, Len(at) - 1))
                       ELSE IF Len(at) > 0 /\ at[Len(at)] = ROOT
                            THEN Walk(rest, at)
                            ELSE Walk(rest, Append(at, c))
                  ELSE Walk(rest, Append(at, c))

Resolve(p) ==
    Walk(Components(p, 1, <<>>), IF Len(p) > 0 /\ p[1] = SEP THEN <<ROOT>> ELSE <<>>)

\* the directory a resolved path lies in
DirOf(k) == SubSeq(k, 1, Len(k) - 1)

\* line 8: os.makedirs(UPLOAD_FOLDER, exist_ok=True); the working directory
\* and the upload directory are the directories that exist, and no request
\* creates another.
Dirs == {<<>>, <<UPLOAD_FOLDER>>}

InUploadDir(k) == Len(k) >= 2 /\ k[1] = UPLOAD_FOLDER

(***************************************************************************)
(* File contents.  An uploaded file is a PNG image (its colour mode and    *)
(* its pixel data) or bytes no image decoder identifies; the conversion    *)
(* writes JPEG files; a file opened for writing and never written is       *)
(* empty.                                                                  *)
(***************************************************************************)
Png(m, p) == [kind |-> "png", mode |-> m, pix |-> p]
Jpeg(m, p) == [kind |-> "jpeg", mode |-> m, pix |-> p]
Junk == [kind |-> "junk", mode |-> "", pix |-> ""]
Empty == [kind |-> "empty", mode |-> "", pix |-> ""]
NoBody == [kind |-> "none", mode |-> "", pix |-> ""]

\* the colour modes with an alpha channel
AlphaModes == {"RGBA", "LA"}
\* the modes Pillow's JPEG encoder writes (JpegImagePlugin.RAWMODE)
JPEG_RAWMODE == {"1", "L", "RGB", "RGBX", "CMYK", "YCbCr"}

\* the inputs: the uploaded files.  Four PNG images, each with its own pixel
\* data, in the colour modes the PNG decoder gives a truecolour, a
\* truecolour-with-alpha, a greyscale-with-alpha and a palette image; and a
\* file that is no image.
UploadBytes ==
    {Png("RGB", "p1"), Png("RGBA", "p2"), Png("LA", "p3"), Png("P", "p4"), Junk}

\* the inputs: the client filenames of the uploads
Filenames ==
    { <<"a", ".", "p", "n", "g">>,
      <<"a", ".", "P", "N", "G">>,
      <<"a", ".", "g", "i", "f">>,
      <<"a", ".", "j", "p", "g">>,
      <<"a">>,
      <<".", "p", "n", "g">>,
      <<".", ".", "/", "a", ".", "p", "n", "g">>,
      <<"d", "/", "a", ".", "p", "n", "g">> }

\* A request: the multipart form has a field named "file" or not, and the
\* field carries the client's filename and the uploaded bytes.  A file input
\* left empty is sent as a field with the filename "" and no bytes.
NoFileField == [field |-> FALSE, filename |-> <<>>, data |-> Empty]
Upload(n, d) == [field |-> TRUE, filename |-> n, data |-> d]
Requests ==
    {NoFileField, Upload(<<>>, Empty)}
        \cup {Upload(n, d) : n \in Filenames, d \in UploadBytes}

(***************************************************************************)
(* Responses.                                                              *)
(***************************************************************************)
\* line 14: return {"error": "No file uploaded"}, 400
NoFileUploaded ==
    [status |-> 400, type |-> "json", error |-> "No file uploaded",
     body |-> NoBody, name |-> <<>>]
\* line 41: app.run(debug=True)
DEBUG == TRUE
\* line 12: request.files["file"] on a form without the field raises
\* werkzeug's BadRequestKeyError before line 13 is reached.  Flask answers it
\* with werkzeug's own 400 page; in debug mode it traps the error instead,
\* and the request ends as an unhandled exception.
BadRequestKeyError ==
    [status |-> IF DEBUG THEN 500 ELSE 400, type |-> "html",
     error |-> "BadRequestKeyError", body |-> NoBody, name |-> <<>>]
\* an exception no handler catches: Flask answers 500
ServerError(e) ==
    [status |-> 500, type |-> "html", error |-> e, body |-> NoBody, name |-> <<>>]
FileResponse(data, n) ==
    [status |-> 200, type |-> "attachment", error |-> "", body |-> data, name |-> n]
NoResponse ==
    [status |-> 0, type |-> "", error |-> "", body |-> NoBody, name |-> <<>>]

(***************************************************************************)
(* The library calls of the handler, on a filesystem f.  Each returns the  *)
(* exception it raises in err ("" for none).                               *)
(***************************************************************************)
Exists(f, path) == Resolve(path) \in DOMAIN f

WriteFile(f, k, data) == [q \in DOMAIN f \cup {k} |-> IF q = k THEN data ELSE f[q]]
RemoveFile(f, k) == [q \in DOMAIN f \ {k} |-> f[q]]

\* file.save as it would be if it left a file that exists as it is
FileSave_KeepExisting(f, path, data) ==
    LET k == Resolve(path)
    IN  IF k \in Dirs THEN [err |-> "IsADirectoryError", fs |-> f]
        ELSE IF DirOf(k) \notin Dirs THEN [err |-> "FileNotFoundError", fs |-> f]
        ELSE IF k \in DOMAIN f THEN [err |-> "", fs |-> f]
        ELSE [err |-> "", fs |-> WriteFile(f, k, data)]

\* line 18: file.save(filepath) opens the path for writing ("wb") and copies
\* the uploaded bytes into it.
FileSave(f, path, data) ==
    LET k == Resolve(path)
    IN  IF k \in Dirs THEN [err |-> "IsADirectoryError", fs |-> f]
        ELSE IF DirOf(k) \notin Dirs THEN [err |-> "FileNotFoundError", fs |-> f]
        ELSE [err |-> "", fs |-> WriteFile(f, k, data)]

\* line 30: Image.open(filepath) identifies the image from the file's bytes
\* and reads its header; the pixel data is read when the image is loaded.
NoImage == [path |-> <<>>, mode |-> "", pix |-> ""]
ImageOpen(f, path) ==
    LET k == Resolve(path)
    IN  IF k \notin DOMAIN f THEN [err |-> "FileNotFoundError", img |-> NoImage]
        ELSE IF f[k].kind \notin {"png", "jpeg"}
             THEN [err |-> "UnidentifiedImageError", img |-> NoImage]
        ELSE [err |-> "", img |-> [path |-> path, mode |-> f[k].mode, pix |-> ""]]

\* Image.load, called by convert (line 34) and by save (line 36): decodes
\* the pixel data from the open file, whose bytes are those the path holds
\* now.
ImageLoad(f, img) ==
    LET k == Resolve(img.path)
    IN  IF k \in DOMAIN f /\ f[k].kind \in {"png", "jpeg"} /\ f[k].mode = img.mode
        THEN [err |-> "", img |-> [img EXCEPT !.pix = f[k].pix]]
        ELSE [err |-> "OSError", img |-> NoImage]

\* line 34: img.convert("RGB") keeps the colour channels and drops the rest
ImageConvert(img, mode) == [img EXCEPT !.mode = mode]

\* line 33: the modes the handler converts before encoding
NeedsConvert(mode) == mode = "RGBA"

\* the JPEG file the encoder writes for a loaded image
EncodeJpeg(img) == Jpeg(IF img.mode = "1" THEN "L" ELSE img.mode, img.pix)

\* the failed save as it would be if it removed the file whether or not this
\* call created it
KeepFile_AlwaysRemove(f, k, created) ==
    IF k \in DOMAIN f THEN RemoveFile(f, k) ELSE f

\* img.save as it would be if it opened the path for exclusive creation ("xb")
ImageSave_Exclusive(f, img, path) ==
    LET k == Resolve(path)
    IN  IF k \in DOMAIN f THEN [err |-> "FileExistsError", fs |-> f]
        ELSE IF img.mode \notin JPEG_RAWMODE THEN [err |-> "OSError", fs |-> f]
        ELSE [err |-> "", fs |-> WriteFile(f, k, EncodeJpeg(img))]

\* line 36: img.save(output_path, "JPEG") opens the path for writing ("w+b"),
\* which creates or empties it, and encodes into it.  A mode the encoder
\* does not write raises OSError after the file is opened; Pillow then
\* removes the file if this call created it, and a file that was there
\* stays, emptied.
KeepFile(f, k, created) ==
    IF created THEN f ELSE WriteFile(f, k, Empty)
ImageSave(f, img, path) ==
    LET k == Resolve(path)
        created == k \notin DOMAIN f
    IN  IF k \in Dirs THEN [err |-> "IsADirectoryError", fs |-> f]
        ELSE IF DirOf(k) \notin Dirs THEN [err |-> "FileNotFoundError", fs |-> f]
        ELSE IF img.mode \notin JPEG_RAWMODE
             THEN [err |-> "OSError", fs |-> KeepFile(f, k, created)]
        ELSE [err |-> "", fs |-> WriteFile(f, k, EncodeJpeg(img))]

\* the last component of a path: the download name of the attachment
basename(p) == SubSeq(p, rfind(p, SEP) + 1, Len(p))

\* line 22: send_file(output_file, as_attachment=True)
send_file(f, path) ==
    IF Exists(f, path) /\ Resolve(path) \notin Dirs
    THEN FileResponse(f[Resolve(path)], basename(path))
    ELSE ServerError("FileNotFoundError")

(***************************************************************************)
(* convert_to_jpeg, lines 24-38, in its two halves: up to Image.open, and  *)
(* from the mode test to img.save.  Each operator passes what a call       *)
(* returned to the operator that models the lines after the call.          *)
(***************************************************************************)
\* the extension test as it would be without .lower()
IsPngExt_CaseSensitive(ext) == ext = DOT_PNG
\* the extension test as it would be if every upload were converted
IsPngExt_Any(ext) == TRUE

\* line 29: ext.lower() == ".png"
IsPngExt(ext) == lower(ext) = DOT_PNG

\* line 30, with o what Image.open returned
Opened(o, output_path) ==
    [err |-> o.err, output_path |-> output_path, png |-> TRUE, img |-> o.img]

\* lines 27-30, with parts what os.path.splitext returned
Begun(f, filepath, parts) ==
    IF IsPngExt(parts[2])
    THEN Opened(ImageOpen(f, filepath), parts[1] \o DOT_JPG)
    ELSE [err |-> "", output_path |-> parts[1] \o DOT_JPG, png |-> FALSE, img |-> NoImage]

\* lines 26-30: the output path, whether the extension is .png, and then the
\* image Image.open returned or the exception it raised
ConvertBegin(f, filepath) == Begun(f, filepath, splitext(filepath))

\* lines 33-34
Flatten(img) == IF NeedsConvert(img.mode) THEN ImageConvert(img, "RGB") ELSE img

\* lines 33-36, with ld the loaded image
EncodeLoaded(f, ld, output_path) ==
    IF ld.err # "" THEN [err |-> ld.err, fs |-> f]
    ELSE ImageSave(f, Flatten(ld.img), output_path)

\* lines 33-36, for the image Image.open returned: the filesystem they
\* leave and the exception they raise
ConvertEnd(f, img, output_path) == EncodeLoaded(f, ImageLoad(f, img), output_path)

\* line 38, with e what lines 33-36 did
Returned(e, output_path) ==
    [fs |-> e.fs, raised |-> e.err,
     result |-> IF e.err = "" THEN output_path ELSE <<>>]

\* lines 29-38, with b what lines 26-30 did
Converted(f, b) ==
    IF b.err # "" THEN [fs |-> f, raised |-> b.err, result |-> <<>>]
    ELSE IF ~b.png THEN [fs |-> f, raised |-> "", result |-> b.output_path]
    ELSE Returned(ConvertEnd(f, b.img, b.output_path), b.output_path)

\* lines 24-38: the filesystem the call leaves, the exception it raises
\* ("" for none) and the path it returns
convert_to_jpeg(f, filepath) == Converted(f, ConvertBegin(f, filepath))

(***************************************************************************)
(* convert, lines 10-22: the whole handler on filesystem f.  called says   *)
(* whether convert_to_jpeg was reached; pre is the filesystem it was       *)
(* called on, and conv what it returned.                                   *)
(***************************************************************************)
NoConv == [raised |-> "", result |-> <<>>]

\* lines 12-14: a form without the field raises; a field whose filename is
\* empty is a false FileStorage.
Rejected(req) == ~req.field \/ req.filename = <<>>
Rejection(req) == IF ~req.field THEN BadRequestKeyError ELSE NoFileUploaded

\* lines 16-17
FilePath(req) == join(UPLOAD_FOLDER, req.filename)

\* lines 20-22, with c what convert_to_jpeg did on the filesystem pre
AfterConvert(pre, c) ==
    [fs |-> c.fs,
     resp |-> IF c.raised # "" THEN ServerError(c.raised) ELSE send_file(c.fs, c.result),
     called |-> TRUE, pre |-> pre, conv |-> [raised |-> c.raised, result |-> c.result]]

\* lines 18-22, with s what file.save did
AfterSave(f, filepath, s) ==
    IF s.err # ""
    THEN [fs |-> s.fs, resp |-> ServerError(s.err), called |-> FALSE,
          pre |-> f, conv |-> NoConv]
    ELSE AfterConvert(s.fs, convert_to_jpeg(s.fs, filepath))

Handle(f, req) ==
    IF Rejected(req)
    THEN [fs |-> f, resp |-> Rejection(req), called |-> FALSE, pre |-> f, conv |-> NoConv]
    ELSE AfterSave(f, FilePath(req), FileSave(f, FilePath(req), req.data))

(***************************************************************************)
(* State.                                                                  *)
(***************************************************************************)
VARIABLES
    fs,        \* the files on disk: resolved path -> contents
    handled,   \* requests handled so far (Spec)
    last,      \* the request handled last, and what the handler did (Spec)
    prev,      \* the request handled before it, and its response (Spec)
    th,        \* each worker thread's position in the handler (SpecConc)
    started    \* requests received so far (SpecConc)

vars == <<fs, handled, last, prev, th, started>>

Threads == {"t1", "t2"}

EmptyFS == [q \in {} |-> Empty]

NoLast ==
    [req |-> NoFileField, resp |-> NoResponse, before |-> EmptyFS, called |-> FALSE,
     pre |-> EmptyFS, conv |-> NoConv]
NoPrev == [req |-> NoFileField, resp |-> NoResponse]

Idle ==
    [pc |-> "idle", req |-> NoFileField, filepath |-> <<>>, output_path |-> <<>>,
     img |-> NoImage, resp |-> NoResponse]

Init ==
    /\ fs = EmptyFS
    /\ handled = 0
    /\ last = NoLast
    /\ prev = NoPrev
    /\ th = [t \in Threads |-> Idle]
    /\ started = 0

(***************************************************************************)
(* Spec: requests are handled one after the other, each by one run of the  *)
(* handler.                                                                *)
(***************************************************************************)
\* the handler ran on request req and did h
Respond(req, h) ==
    /\ fs' = h.fs
    /\ last' = [req |-> req, resp |-> h.resp, before |-> fs, called |-> h.called,
                pre |-> h.pre, conv |-> h.conv]
    /\ prev' = [req |-> last.req, resp |-> last.resp]
    /\ handled' = handled + 1
    /\ UNCHANGED <<th, started>>

Convert(req) ==
    /\ handled < MaxRequests
    /\ Respond(req, Handle(fs, req))

Next == \E req \in Requests : Convert(req)

Spec == Init /\ [][Next]_vars

(***************************************************************************)
(* SpecConc: two worker threads of the development server run the handler  *)
(* at the same time.  A step is one call that reads or writes the          *)
(* filesystem; the steps of the two threads interleave freely, since the   *)
(* handler takes no lock.                                                  *)
(***************************************************************************)
\* the inputs of SpecConc: uploads that meet on the paths uploads/a.png and
\* uploads/a.jpg
ConcFilenames == {<<"a", ".", "p", "n", "g">>, <<"a", ".", "j", "p", "g">>}
ConcBytes == {Png("RGB", "p1"), Png("RGBA", "p2"), Png("P", "p4"), Junk}
ConcRequests == {Upload(n, d) : n \in ConcFilenames, d \in ConcBytes}

Finish(t, resp) == th' = [th EXCEPT ![t].pc = "done", ![t].resp = resp]

\* lines 12-17
Receive(t, req) ==
    /\ th[t].pc \in {"idle", "done"}
    /\ started < MaxConcRequests
    /\ started' = started + 1
    /\ th' = [th EXCEPT ![t] =
                IF Rejected(req)
                THEN [Idle EXCEPT !.pc = "done", !.req = req, !.resp = Rejection(req)]
                ELSE [Idle EXCEPT !.pc = "save", !.req = req, !.filepath = FilePath(req)]]
    /\ UNCHANGED <<fs, handled, last, prev>>

\* line 18
Save(t) ==
    /\ th[t].pc = "save"
    /\ LET s == FileSave(fs, th[t].filepath, th[t].req.data)
       IN  /\ fs' = s.fs
           /\ IF s.err # "" THEN Finish(t, ServerError(s.err))
              ELSE th' = [th EXCEPT ![t].pc = "convert"]
    /\ UNCHANGED <<handled, last, prev, started>>

\* lines 20 and 26-30
ConvertOpen(t) ==
    /\ th[t].pc = "convert"
    /\ LET b == ConvertBegin(fs, th[t].filepath)
       IN  IF b.err # "" THEN Finish(t, ServerError(b.err))
           ELSE th' = [th EXCEPT ![t].pc = IF b.png THEN "encode" ELSE "send",
                                 ![t].output_path = b.output_path,
                                 ![t].img = b.img]
    /\ UNCHANGED <<fs, handled, last, prev, started>>

\* lines 33-38
ConvertSave(t) ==
    /\ th[t].pc = "encode"
    /\ LET e == ConvertEnd(fs, th[t].img, th[t].output_path)
       IN  /\ fs' = e.fs
           /\ IF e.err # "" THEN Finish(t, ServerError(e.err))
              ELSE th' = [th EXCEPT ![t].pc = "send"]
    /\ UNCHANGED <<handled, last, prev, started>>

\* line 22
Send(t) ==
    /\ th[t].pc = "send"
    /\ Finish(t, send_file(fs, th[t].output_path))
    /\ UNCHANGED <<fs, handled, last, prev, started>>

NextConc ==
    \E t \in Threads :
        \/ \E req \in ConcRequests : Receive(t, req)
        \/ Save(t)
        \/ ConvertOpen(t)
        \/ ConvertSave(t)
        \/ Send(t)

SpecConc == Init /\ [][NextConc]_vars

(***************************************************************************)
(* Properties.  In Spec, last describes the request handled last: the      *)
(* filesystem before it (before), the filesystem convert_to_jpeg was       *)
(* called on (pre, the filesystem after the save), what convert_to_jpeg    *)
(* returned (conv), and the response; fs is the filesystem after it.       *)
(***************************************************************************)
SomeHandled == handled > 0
\* the handler went past line 14
Accepted == SomeHandled /\ ~Rejected(last.req)
\* the handler went past line 18: the save succeeded
Saved == SomeHandled /\ last.called

PathOf(req) == UPLOAD_FOLDER \o <<SEP>> \o req.filename
ExtOf(req) == splitext(req.filename)[2]
OutputOf(req) == splitext(PathOf(req))[1] \o DOT_JPG
PlainName(req) == rfind(req.filename, SEP) = 0
Absent == [kind |-> "absent", mode |-> "", pix |-> ""]
FileAt(f, path) == IF Exists(f, path) THEN f[Resolve(path)] ELSE Absent

\* C1: every request whose form has no "file" field is answered with status
\* 400 and the body {"error": "No file uploaded"}.
C1_MissingFieldGetsJsonError ==
    (SomeHandled /\ ~last.req.field) => last.resp = NoFileUploaded

\* C2: every upload of a decodable PNG under a filename X.png ends with a 200
\* response whose body is the JPEG the conversion wrote, and uploads/X.jpg
\* exists afterwards.
C2_EveryPngIsConverted ==
    (/\ Accepted
     /\ PlainName(last.req)
     /\ ExtOf(last.req) = DOT_PNG
     /\ last.req.data.kind = "png")
    => /\ last.resp.status = 200
       /\ Exists(fs, OutputOf(last.req))
       /\ InUploadDir(Resolve(OutputOf(last.req)))
       /\ FileAt(fs, OutputOf(last.req)).kind = "jpeg"
       /\ last.resp.body = FileAt(fs, OutputOf(last.req))

\* C4: for every uploaded PNG whose colour mode has an alpha channel, the
\* conversion produces a JPEG of the three-channel mode RGB.
C4_EveryAlphaModeIsFlattened ==
    (/\ Saved
     /\ IsPngExt(ExtOf(last.req))
     /\ last.req.data.kind = "png"
     /\ last.req.data.mode \in AlphaModes)
    => /\ last.conv.raised = ""
       /\ FileAt(fs, OutputOf(last.req)).kind = "jpeg"
       /\ FileAt(fs, OutputOf(last.req)).mode = "RGB"

\* C5: the response to a request is the one the same request gets on the
\* empty upload directory, whatever requests were handled before it.
C5_OutcomeIndependentOfHistory ==
    SomeHandled => last.resp = Handle(EmptyFS, last.req).resp

\* compared case-insensitively, the extension of the client's filename is .png
PngName(req) == lower(ExtOf(req)) = DOT_PNG

\* C3, as claimed: an upload whose extension is not .png never gets a
\* successful file response; nothing is at the output path X.jpg, and the
\* send step fails with a file-not-found server error.
C3_NonPngNeverSucceeds ==
    (Accepted /\ ~PngName(last.req))
    => /\ last.resp = ServerError("FileNotFoundError")
       /\ ~Exists(fs, OutputOf(last.req))

\* C3, amended: for an upload whose extension is not .png the conversion
\* writes nothing; the response is the file at the output path X.jpg when
\* the save succeeded and a file is there (the upload itself, or a file an
\* earlier request left), and a server error otherwise, which is the send
\* step's file-not-found error when the save succeeded.
C3_NonPngSendsWhatIsAtOutputPath ==
    (Accepted /\ ~PngName(last.req))
    => /\ last.called => fs = last.pre
       /\ IF last.called /\ Exists(fs, OutputOf(last.req))
          THEN last.resp = FileResponse(fs[Resolve(OutputOf(last.req))],
                                        basename(OutputOf(last.req)))
          ELSE /\ last.resp.status = 500
               /\ last.called => last.resp = ServerError("FileNotFoundError")

\* C3, the case: a .gif or extensionless upload is answered 200 with a file
\* an earlier request left at X.jpg.
C3_StaleFileSent ==
    /\ Accepted
    /\ ~PngName(last.req)
    /\ ExtOf(last.req) # DOT_JPG
    /\ last.resp.status = 200
    /\ last.resp.body = FileAt(last.before, OutputOf(last.req))

\* C6: the same upload under a .png name twice in sequence gets the same
\* response both times and leaves the same file (or none) at X.jpg.
C6_SamePngTwiceSameResult ==
    (handled >= 2 /\ Accepted /\ last.req = prev.req /\ PngName(last.req))
    => /\ last.resp = prev.resp
       /\ FileAt(fs, OutputOf(last.req)) = FileAt(last.before, OutputOf(last.req))

\* C6, the case: a PNG converted twice in a row, both answered with the JPEG.
C6_ConvertedTwice ==
    /\ handled >= 2
    /\ last.req = prev.req
    /\ PngName(last.req)
    /\ last.resp.status = 200
    /\ prev.resp.status = 200
    /\ FileAt(fs, OutputOf(last.req)).kind = "jpeg"

\* the client's filename starts with a parent-directory segment
StartsWithDotDot(n) == Len(n) >= 3 /\ SubSeq(n, 1, 3) = <<".", ".", SEP>>

C9_NoFileIsDeleted == [][\A k \in DOMAIN fs : k \in DOMAIN fs']_vars

\* C9, the case: the encoder failed on an output path that held a file, and
\* the file is still there.
C9_FailedOnExistingFile ==
    /\ handled >= 2
    /\ last.conv.raised = "OSError"
    /\ last.resp.status = 500
    /\ Exists(last.before, OutputOf(last.req))
    /\ Exists(fs, OutputOf(last.req))

\* the path without the extension of its last component
Stem(p) ==
    LET d == rfind(p, EXTSEP)
    IN  IF d > rfind(p, SEP) + 1 THEN SubSeq(p, 1, d - 1) ELSE p

\* C10: whenever convert_to_jpeg returns, it returns its input path with the
\* extension replaced by .jpg; it changes the filesystem only for an
\* extension that is .png compared case-insensitively, and then the JPEG of
\* the upload is at the returned path; for any other extension it returns
\* with the filesystem unchanged.
C10_ConvertToJpegFrame ==
    Saved
    => /\ last.conv.raised = "" => last.conv.result = Stem(PathOf(last.req)) \o DOT_JPG
       /\ fs # last.pre => PngName(last.req)
       /\ ~PngName(last.req) => (fs = last.pre /\ last.conv.raised = "")
       /\ (PngName(last.req) /\ last.conv.raised = "")
            => FileAt(fs, last.conv.result) = Jpeg("RGB", last.req.data.pix)

\* C10, the case: an upload named a.PNG was converted.
C10_UpperCaseConverted ==
    /\ Saved
    /\ ExtOf(last.req) = <<".", "P", "N", "G">>
    /\ last.conv.raised = ""
    /\ fs # last.pre
    /\ FileAt(fs, last.conv.result).kind = "jpeg"

(***************************************************************************)
(* Properties of SpecConc.                                                 *)
(***************************************************************************)
\* A save step is never refused and leaves the thread's upload at its
\* path, and an encoding that succeeds leaves at the output path the JPEG of
\* the pixels the upload path held at that moment: whatever was at those
\* paths, and wherever the other thread is in its own request.
LastWriteWins ==
    \A t \in Threads :
        /\ (th[t].pc = "save" /\ th'[t] # th[t])
             => /\ th'[t].pc = "convert"
                /\ FileAt(fs', th[t].filepath) = th[t].req.data
        /\ (th[t].pc = "encode" /\ th'[t].pc = "send")
             => FileAt(fs', th[t].output_path)
                  = Jpeg("RGB", FileAt(fs, th[t].filepath).pix)

\* C7: the steps of two requests on the same paths interleave with no
\* locking, and the last write to a path determines its content.
C7_NoIsolation == [][LastWriteWins]_vars

\* C7, the case: two requests uploaded different content under the same
\* filename, and one was answered with the JPEG of the other's upload.
C7_OtherUploadSent ==
    \E t, u \in Threads :
        /\ t # u
        /\ th[t].pc = "done"
        /\ th[u].pc # "idle"
        /\ th[t].req.filename = th[u].req.filename
        /\ PngName(th[t].req)
        /\ th[t].req.data # th[u].req.data
        /\ th[t].resp.status = 200
        /\ th[t].resp.body = Jpeg("RGB", th[u].req.data.pix)
        /\ th[t].resp.body # Jpeg("RGB", th[t].req.data.pix)

====
